---------------------------- MODULE Spec2Model ----------------------------
(***************************************************************************)
(* Model of src/src/lambda_function.py: an S3-triggered Lambda that        *)
(* fetches one JSON object, parses it, validates/normalises it             *)
(* (verify_json) and puts it into a DynamoDB table keyed by email.         *)
(*                                                                         *)
(* Python strings are modelled as sequences of one-character strings, so   *)
(* that lower(), strip() and the regular expression are computed, not      *)
(* assumed.  A Python dict is modelled as a sequence of [k, v] pairs with  *)
(* distinct keys (insertion order), a JSON value as a tagged record.       *)
(***************************************************************************)
EXTENDS Integers, Sequences, FiniteSets, TLC

VARIABLES
    store,      \* the DynamoDB table: function from primary key (email) to item
    pc,         \* pc[i]: position of invocation i inside lambda_handler
    body,       \* body[i]: what s3.get_object delivered to invocation i
    input_data, \* input_data[i]: the dict returned by get_parse_s3_file
    outcome,    \* outcome[i]: result of verify_json inside ingest
    ack,        \* ack[i]: HTTPStatusCode of put_item's response (-1: no call yet, 0: it raised)
    result,     \* result[i]: how lambda_handler ended / the exception it printed
    log,        \* log[i]: the lines printed by invocation i
    trace,      \* trace[i]: the stages invocation i has executed, in order
    escaped,    \* escaped[i]: an exception left lambda_handler
    candidate,  \* verify_json unit harness: the argument
    verdict,    \* verify_json unit harness: the returned value / raised error
    verdict2,   \* verify_json unit harness: result of validating the result again
    vpc         \* verify_json unit harness: position

vars == <<store, pc, body, input_data, outcome, ack, result, log, trace,
          escaped, candidate, verdict, verdict2, vpc>>

pipeVars == <<store, pc, body, input_data, outcome, ack, result, log, trace, escaped>>
unitVars == <<candidate, verdict, verdict2, vpc>>

-----------------------------------------------------------------------------
(* Bounds *)

NumInvocations == 2     \* concurrent invocations of lambda_handler
MaxLen == 5             \* exhaustive email strings up to this length
MaxPairs == 3           \* exhaustive candidate dicts up to this many items

-----------------------------------------------------------------------------
(* Strings *)

S_email      == <<"e","m","a","i","l">>
S_first_name == <<"f","i","r","s","t","_","n","a","m","e">>
S_last_name  == <<"l","a","s","t","_","n","a","m","e">>

\* str.lower() on the characters the model uses
LowerChar(c) ==
    CASE c = "A" -> "a"
      [] c = "B" -> "b"
      [] c = "E" -> "e"
      [] c = "F" -> "f"
      [] c = "J" -> "j"
      [] c = "N" -> "n"
      [] c = "P" -> "p"
      [] OTHER -> c

Lower(s) == [i \in 1..Len(s) |-> LowerChar(s[i])]

IsSpace(c) == c \in {" ", "\t", "\n"}

RECURSIVE LStrip(_)
LStrip(s) ==
    IF s = <<>> THEN s
    ELSE IF IsSpace(Head(s)) THEN LStrip(Tail(s)) ELSE s

RECURSIVE RStrip(_)
RStrip(s) ==
    IF s = <<>> THEN s
    ELSE IF IsSpace(s[Len(s)]) THEN RStrip(SubSeq(s, 1, Len(s) - 1)) ELSE s

\* strip() that removes at most one whitespace character on each side
Strip_Once(s) ==
    LET l == IF s # <<>> /\ IsSpace(Head(s)) THEN Tail(s) ELSE s
    IN  IF l # <<>> /\ IsSpace(l[Len(l)]) THEN SubSeq(l, 1, Len(l) - 1) ELSE l

\* str.strip()
Strip(s) == RStrip(LStrip(s))

\* k.lower().strip() / v.lower().strip()
NormStr(s) == Strip(Lower(s))

-----------------------------------------------------------------------------
(* JSON values and dicts *)

Str(s) == [str |-> TRUE, s |-> s]
NonStr == [str |-> FALSE, s |-> <<>>]   \* a number, null, list, ... : has no .lower()

Keys(d) == {d[i].k : i \in 1..Len(d)}

\* dict lookup d[k]
Get(d, k) == d[CHOOSE i \in 1..Len(d) : d[i].k = k].v

\* d[k] = v on an insertion-ordered dict: a present key keeps its place
DictSet(d, k, v) ==
    IF k \in Keys(d)
    THEN [i \in 1..Len(d) |-> IF d[i].k = k THEN [k |-> k, v |-> v] ELSE d[i]]
    ELSE Append(d, [k |-> k, v |-> v])

\* The dict as an unordered mapping (Python dict equality, a DynamoDB item)
AsMap(d) == [k \in Keys(d) |-> Get(d, k)]

AllStr(d) == \A i \in 1..Len(d) : d[i].v.str

\* dict((k.lower().strip(), v.lower().strip()) for k, v in data.items())
RECURSIVE NormalizeUpTo(_, _)
NormalizeUpTo(data, n) ==
    IF n = 0 THEN <<>>
    ELSE DictSet(NormalizeUpTo(data, n - 1),
                 NormStr(data[n].k), Str(NormStr(data[n].v.s)))

\* normalisation that forgets the values: dict((k.lower().strip(), v) ...)
RECURSIVE NormalizeKeysUpTo(_, _)
NormalizeKeysUpTo(data, n) ==
    IF n = 0 THEN <<>>
    ELSE DictSet(NormalizeKeysUpTo(data, n - 1), NormStr(data[n].k), data[n].v)

Normalize_KeysOnly(data) == NormalizeKeysUpTo(data, Len(data))

Normalize(data) == NormalizeUpTo(data, Len(data))

-----------------------------------------------------------------------------
(* The regular expression of verify_json, as a backtracking matcher.       *)
(* Every matcher returns the positions at which it can stop, in the order  *)
(* in which re tries them (greedy first).  Only the alternatives that can  *)
(* start on the modelled characters are present: the quoted local part     *)
(* needs a double quote and the IP literal needs a bracket.                *)

Letters == {"a", "b", "c", "e", "f", "h", "i", "j", "l", "m", "n", "o", "p", "r", "s", "t", "x"}
Digits  == {"5"}
AlNum   == Letters \cup Digits                \* [a-z0-9]
AText   == AlNum \cup {"-", "_"}              \* [a-z0-9!#$%&'*+/=?^_`{|}~-]
Ldh     == AlNum \cup {"-"}                   \* [a-z0-9-]

At(s, i) == IF i <= Len(s) THEN s[i] ELSE "<end>"

RECURSIVE Flat(_)
Flat(ss) == IF ss = <<>> THEN <<>> ELSE Head(ss) \o Flat(Tail(ss))

\* length of the run of characters of class cls starting at i
RECURSIVE RunLen(_, _, _)
RunLen(s, i, cls) == IF At(s, i) \in cls THEN 1 + RunLen(s, i + 1, cls) ELSE 0

\* [atext]+ : longest first, at least one character
AtomEnds(s, i) ==
    LET n == RunLen(s, i, AText)
    IN  [j \in 1..n |-> i + (n - j + 1)]

\* (?:\.[atext]+)* : one more iteration first, then stop here
RECURSIVE DotAtomsEnds(_, _)
DotAtomsEnds(s, i) ==
    LET iter == IF At(s, i) = "." THEN AtomEnds(s, i + 1) ELSE <<>>
    IN  Flat([j \in 1..Len(iter) |-> DotAtomsEnds(s, iter[j])]) \o <<i>>

\* [atext]+(?:\.[atext]+)*
LocalEnds(s, i) ==
    LET a == AtomEnds(s, i)
    IN  Flat([j \in 1..Len(a) |-> DotAtomsEnds(s, a[j])])

\* [a-z0-9](?:[a-z0-9-]*[a-z0-9])?
LabelEnds(s, i) ==
    IF At(s, i) \notin AlNum THEN <<>>
    ELSE LET n == RunLen(s, i + 1, Ldh)
             \* [a-z0-9-]* takes n, n-1, ..., 0 characters, then [a-z0-9]
             grp == Flat([j \in 1..(n + 1) |->
                        LET m == n - j + 1
                        IN  IF At(s, i + 1 + m) \in AlNum
                            THEN <<i + 1 + m + 1>> ELSE <<>>])
         IN  grp \o <<i + 1>>

\* (?:label\.)+ : one iteration, then more iterations first, then stop
RECURSIVE LabelDotsEnds(_, _)
LabelDotsEnds(s, i) ==
    LET l    == LabelEnds(s, i)
        iter == Flat([j \in 1..Len(l) |->
                        IF At(s, l[j]) = "." THEN <<l[j] + 1>> ELSE <<>>])
    IN  Flat([j \in 1..Len(iter) |-> LabelDotsEnds(s, iter[j]) \o <<iter[j]>>])

\* (?:label\.)+label
DomainEnds(s, i) ==
    LET d == LabelDotsEnds(s, i)
    IN  Flat([j \in 1..Len(d) |-> LabelEnds(s, d[j])])

\* local-part @ domain, matched at position i
MatchEnds(s, i) ==
    LET l == LocalEnds(s, i)
        a == Flat([j \in 1..Len(l) |->
                     IF At(s, l[j]) = "@" THEN <<l[j] + 1>> ELSE <<>>])
    IN  Flat([j \in 1..Len(a) |-> DomainEnds(s, a[j])])

\* re.findall(pattern, s): the non-overlapping matches, leftmost first
RECURSIVE FindallFrom(_, _)
FindallFrom(s, i) ==
    IF i > Len(s) THEN <<>>
    ELSE LET m == MatchEnds(s, i)
         IN  IF m = <<>> THEN FindallFrom(s, i + 1)
             ELSE <<SubSeq(s, i, Head(m) - 1)>> \o FindallFrom(s, Head(m))

Findall(s) == FindallFrom(s, 1)

\* the check without the comparison of line 61: any match is accepted
EmailAccepted_AnyMatch(email) == Findall(email) # <<>>

\* lines 57-65: not not_valid
EmailAccepted(email) ==
    LET match == Findall(email)
    IN  IF match # <<>> THEN email = match[1] ELSE FALSE

-----------------------------------------------------------------------------
(* verify_json *)

Allowed == {S_email, S_first_name, S_last_name}

Ok(d)        == [tag |-> "ok", data |-> d, keys |-> {}]
Raise(t)     == [tag |-> t, data |-> <<>>, keys |-> {}]
RaiseKeys(K) == [tag |-> "Input data contains forbidden keys", data |-> <<>>, keys |-> K]
None         == [tag |-> "none", data |-> <<>>, keys |-> {}]

\* verify_json without the forbidden-keys gate
verify_json_NoForbidden(data) ==
    IF Len(data) = 0 THEN Raise("File empty.")
    ELSE IF ~AllStr(data) THEN Raise("AttributeError")
    ELSE LET d == Normalize(data)
         IN  IF S_email \notin Keys(d) THEN Raise("Email not found.")
             ELSE IF ~EmailAccepted(Get(d, S_email).s)
                  THEN Raise("Provided email is not valid.")
             ELSE Ok(d)

\* verify_json reporting only one of the forbidden keys
verify_json_FirstKey(data) ==
    IF Len(data) = 0 THEN Raise("File empty.")
    ELSE IF ~AllStr(data) THEN Raise("AttributeError")
    ELSE LET d == Normalize(data)
             forbidden_keys == Keys(d) \ Allowed
         IN  IF S_email \notin Keys(d) THEN Raise("Email not found.")
             ELSE IF Cardinality(forbidden_keys) > 0
                  THEN RaiseKeys({CHOOSE k \in forbidden_keys : TRUE})
             ELSE IF ~EmailAccepted(Get(d, S_email).s)
                  THEN Raise("Provided email is not valid.")
             ELSE Ok(d)

\* verify_json with the forbidden-keys gate ahead of the email-presence gate
verify_json_ForbiddenFirst(data) ==
    IF Len(data) = 0 THEN Raise("File empty.")
    ELSE IF ~AllStr(data) THEN Raise("AttributeError")
    ELSE LET d == Normalize(data)
             forbidden_keys == Keys(d) \ Allowed
         IN  IF Cardinality(forbidden_keys) > 0 THEN RaiseKeys(forbidden_keys)
             ELSE IF S_email \notin Keys(d) THEN Raise("Email not found.")
             ELSE IF ~EmailAccepted(Get(d, S_email).s)
                  THEN Raise("Provided email is not valid.")
             ELSE Ok(d)

verify_json(data) ==
    IF Len(data) = 0 THEN Raise("File empty.")
    ELSE IF ~AllStr(data) THEN Raise("AttributeError")
    ELSE LET d == Normalize(data)
             forbidden_keys == Keys(d) \ Allowed
         IN  IF S_email \notin Keys(d) THEN Raise("Email not found.")
             ELSE IF Cardinality(forbidden_keys) > 0 THEN RaiseKeys(forbidden_keys)
             ELSE IF ~EmailAccepted(Get(d, S_email).s)
                  THEN Raise("Provided email is not valid.")
             ELSE Ok(d)

-----------------------------------------------------------------------------
(* Inputs of the pipeline: what the uploaded object can be *)

C_a   == <<"a","@","b",".","c">>
C_b   == <<"b","@","a",".","c">>
Pair(k, v) == [k |-> k, v |-> v]

Obj(d)   == [kind |-> "dict", obj |-> d]
Other(t) == [kind |-> t, obj |-> <<>>]

Bodies ==
    { Other("missing"),            \* no such object / transport error
      Other("invalid"),            \* text that is not JSON
      Other("list"),               \* [1,2,3]
      Obj(<<>>),                                                   \* {}
      Obj(<<Pair(<<"E","m","a","i","l">>, Str(<<" ","A","@","b",".","c"," ">>)),
            Pair(<<"F","i","r","s","t","_","N","a","m","e">>, Str(<<" ","J","a","n","e"," ">>))>>),
      Obj(<<Pair(S_email, Str(C_a))>>),
      Obj(<<Pair(S_email, Str(C_b)), Pair(S_last_name, Str(<<" ","B">>))>>),
      Obj(<<Pair(S_email, Str(C_a)), Pair(<<"p","h","o","n","e">>, Str(<<"5","5","5">>))>>),
      Obj(<<Pair(S_email, Str(<<"a","@","b",".","c"," ","x">>))>>),
      Obj(<<Pair(S_first_name, Str(<<"J","a","n","e">>))>>),
      Obj(<<Pair(S_email, NonStr)>>) }

\* HTTPStatusCode values of a put_item response; 0 stands for put_item raising
Statuses == {200, 500}
PutOutcomes == Statuses \cup {0}

Invocations == 1..NumInvocations

-----------------------------------------------------------------------------
(* Exceptions and the handler's except clauses *)

Exc(cls, msg, status) == [cls |-> cls, msg |-> msg, status |-> status, keys |-> {}]
NoExc == Exc("none", "", 0)

\* Every exception the stages raise derives from Exception
IsInstance(exc, cls) == cls = "Exception" \/ exc.cls = cls

\* a second try statement that only catches KeyError
HandlerExcept_KeyError(stage) == IF stage = 1 THEN "Exception" ELSE "KeyError"

\* lines 106 and 114: "except Exception as e"
HandlerExcept(stage) == "Exception"

\* a status check that takes every status the response carries for success
StatusOk_Truthy(status) == status > 0

\* line 81: db_response['ResponseMetadata']['HTTPStatusCode'] == 200
StatusOk(status) == status = 200

\* a put that merges the new attributes into the old item (update semantics)
put_item_Merge(table, item) ==
    LET key == item[S_email].s
        old == IF key \in DOMAIN table THEN table[key] ELSE item
    IN  [k \in DOMAIN table \cup {key} |->
            IF k = key
            THEN [a \in DOMAIN old \cup DOMAIN item |->
                    IF a \in DOMAIN item THEN item[a] ELSE old[a]]
            ELSE table[k]]

\* table.put_item(Item=item): creates a new item or replaces the old item
\* that has the same primary key (email)
put_item(table, item) ==
    LET key == item[S_email].s
    IN  [k \in DOMAIN table \cup {key} |-> IF k = key THEN item ELSE table[k]]

-----------------------------------------------------------------------------
(* lambda_handler, one action per stage *)

Stage1Failed == "Exception during S3 object parsing. Request not processed"
Stage2Failed == "Exception during data ingestion. Request not processed"
Succeeded    == "Request processed successfully"

\* The exception exc reaches the try statement of the given stage
Unwind(i, stage, exc, lines, failed) ==
    IF IsInstance(exc, HandlerExcept(stage))
    THEN /\ log' = [log EXCEPT ![i] = @ \o lines \o <<"print(e)", failed>>]
         /\ result' = [result EXCEPT ![i] = exc]
         /\ pc' = [pc EXCEPT ![i] = "done"]
         /\ UNCHANGED escaped
    ELSE /\ log' = [log EXCEPT ![i] = @ \o lines]
         /\ result' = [result EXCEPT ![i] = exc]
         /\ pc' = [pc EXCEPT ![i] = "done"]
         /\ escaped' = [escaped EXCEPT ![i] = TRUE]

\* The runtime delivers an event naming a bucket and a key (lines 99-101)
Invoke(i) ==
    /\ pc[i] = "idle"
    /\ pc' = [pc EXCEPT ![i] = "fetch"]
    /\ UNCHANGED <<store, body, input_data, outcome, ack, result, log, trace, escaped>>
    /\ UNCHANGED unitVars

\* lines 13-17: s3.get_object(...)['Body'].read().decode('utf-8'); the call
\* fails or delivers the text of the object
Fetch(i) ==
    /\ pc[i] = "fetch"
    /\ trace' = [trace EXCEPT ![i] = Append(@, "fetch")]
    /\ \E b \in Bodies :
        /\ body' = [body EXCEPT ![i] = b]
        /\ IF b.kind = "missing"
           THEN Unwind(i, 1, Exc("ClientError", "get_object", 0),
                       <<"Loading object failed.">>, Stage1Failed)
           ELSE /\ pc' = [pc EXCEPT ![i] = "parse"]
                /\ UNCHANGED <<log, result, escaped>>
    /\ UNCHANGED <<store, input_data, outcome, ack>>
    /\ UNCHANGED unitVars

\* Parse whose stage-1 failure does not end the invocation: the failure is
\* logged and the handler goes on to ingest
Parse_NoReturn(i) ==
    /\ pc[i] = "parse"
    /\ trace' = [trace EXCEPT ![i] = Append(@, "parse")]
    /\ IF body[i].kind # "dict"
       THEN /\ log' = [log EXCEPT ![i] = @ \o <<"print(e)", Stage1Failed>>]
            /\ result' = [result EXCEPT ![i] = Exc("TypeError", body[i].kind, 0)]
            /\ UNCHANGED <<input_data, escaped>>
       ELSE /\ input_data' = [input_data EXCEPT ![i] = body[i].obj]
            /\ UNCHANGED <<log, result, escaped>>
    /\ pc' = [pc EXCEPT ![i] = "verify"]
    /\ UNCHANGED <<store, body, outcome, ack>>
    /\ UNCHANGED unitVars

\* lines 19-28: json.loads and the isinstance check
Parse(i) ==
    /\ pc[i] = "parse"
    /\ trace' = [trace EXCEPT ![i] = Append(@, "parse")]
    /\ IF body[i].kind = "invalid"
       THEN /\ Unwind(i, 1, Exc("JSONDecodeError", "json.loads", 0),
                      <<"Unable to parse file contents to JSON.">>, Stage1Failed)
            /\ UNCHANGED input_data
       ELSE IF body[i].kind # "dict"
       THEN /\ Unwind(i, 1, Exc("TypeError", body[i].kind, 0), <<>>, Stage1Failed)
            /\ UNCHANGED input_data
       ELSE /\ input_data' = [input_data EXCEPT ![i] = body[i].obj]
            /\ pc' = [pc EXCEPT ![i] = "verify"]
            /\ UNCHANGED <<log, result, escaped>>
    /\ UNCHANGED <<store, body, outcome, ack>>
    /\ UNCHANGED unitVars

\* line 75: data = verify_json(data)
Verify(i) ==
    /\ pc[i] = "verify"
    /\ trace' = [trace EXCEPT ![i] = Append(@, "verify")]
    /\ LET v == verify_json(input_data[i])
       IN  /\ outcome' = [outcome EXCEPT ![i] = v]
           /\ IF v.tag = "ok"
              THEN /\ log' = [log EXCEPT ![i] = Append(@, "Email format is valid.")]
                   /\ pc' = [pc EXCEPT ![i] = "put"]
                   /\ UNCHANGED <<result, escaped>>
              ELSE Unwind(i, 2,
                          [cls |-> IF v.tag = "AttributeError" THEN "AttributeError"
                                   ELSE "Exception",
                           msg |-> v.tag, status |-> 0, keys |-> v.keys],
                          <<>>, Stage2Failed)
    /\ UNCHANGED <<store, body, input_data, ack>>
    /\ UNCHANGED unitVars

\* lines 80-85 and 118-120: put_item, the status check and the success line.
\* A request that fails (raises, or answers another status) may or may not
\* have been applied by the table.
Put(i) ==
    /\ pc[i] = "put"
    /\ trace' = [trace EXCEPT ![i] = Append(@, "put")]
    /\ \E status \in PutOutcomes, applied \in BOOLEAN :
        /\ status = 200 => applied
        /\ store' = IF applied THEN put_item(store, AsMap(outcome[i].data)) ELSE store
        /\ ack' = [ack EXCEPT ![i] = status]
        /\ IF status = 0
           THEN Unwind(i, 2, Exc("ClientError", "put_item", 0), <<>>, Stage2Failed)
           ELSE IF StatusOk(status)
           THEN /\ log' = [log EXCEPT ![i] =
                            @ \o <<"Input data was successfully stored in the DB.", Succeeded>>]
                /\ pc' = [pc EXCEPT ![i] = "done"]
                /\ UNCHANGED <<result, escaped>>
           ELSE Unwind(i, 2, Exc("Exception", "Bad status code from DynamoDB", status),
                       <<>>, Stage2Failed)
    /\ UNCHANGED <<body, input_data, outcome>>
    /\ UNCHANGED unitVars

\* lambda_handler has returned (None); its locals are gone and the runtime
\* may deliver the next event
Return(i) ==
    /\ pc[i] = "done"
    /\ ~escaped[i]
    /\ pc' = [pc EXCEPT ![i] = "idle"]
    /\ body' = [body EXCEPT ![i] = Other("missing")]
    /\ input_data' = [input_data EXCEPT ![i] = <<>>]
    /\ outcome' = [outcome EXCEPT ![i] = None]
    /\ ack' = [ack EXCEPT ![i] = -1]
    /\ result' = [result EXCEPT ![i] = NoExc]
    /\ log' = [log EXCEPT ![i] = <<>>]
    /\ trace' = [trace EXCEPT ![i] = <<>>]
    /\ UNCHANGED <<store, escaped>>
    /\ UNCHANGED unitVars

InitPipe ==
    /\ store = << >>
    /\ pc = [i \in Invocations |-> "idle"]
    /\ body = [i \in Invocations |-> Other("missing")]
    /\ input_data = [i \in Invocations |-> <<>>]
    /\ outcome = [i \in Invocations |-> None]
    /\ ack = [i \in Invocations |-> -1]
    /\ result = [i \in Invocations |-> NoExc]
    /\ log = [i \in Invocations |-> <<>>]
    /\ trace = [i \in Invocations |-> <<>>]
    /\ escaped = [i \in Invocations |-> FALSE]

InitUnit ==
    /\ candidate = <<>>
    /\ verdict = None
    /\ verdict2 = None
    /\ vpc = "off"

Init == InitPipe /\ InitUnit

Next ==
    \E i \in Invocations :
        \/ Invoke(i)
        \/ Fetch(i)
        \/ Parse(i)
        \/ Verify(i)
        \/ Put(i)
        \/ Return(i)

Spec == Init /\ [][Next]_vars

-----------------------------------------------------------------------------
(* Unit harness of verify_json: the argument is drawn from bounded sets *)

RawKeys ==
    { S_email, <<"E","m","a","i","l"," ">>, S_first_name,
      <<"p","h","o","n","e">>, <<" ","P","h","o","n","e">>, <<"x">> }

RawValues ==
    { Str(<<" ","A","@","b",".","c"," ">>), Str(<<"a","@","b",".","c"," ","x">>),
      Str(<<"J","a","n","e"," ">>), NonStr }

EmailAlphabet == {"a", "A", "@", ".", "-", " "}

StringsUpTo(n) == UNION {[1..m -> EmailAlphabet] : m \in 0..n}

\* dicts of exactly n items: distinct (raw) keys, any insertion order
DictsOf(n) ==
    {d \in [1..n -> {Pair(k, v) : k \in RawKeys, v \in RawValues}] :
        \A a, b \in 1..n : a # b => d[a].k # d[b].k}

Candidates ==
    UNION {DictsOf(n) : n \in 0..MaxPairs}
    \cup {<<Pair(S_email, Str(s))>> : s \in StringsUpTo(MaxLen)}

InitV ==
    /\ InitPipe
    /\ candidate \in Candidates
    /\ verdict = None
    /\ verdict2 = None
    /\ vpc = "call"

\* verify_json(candidate)
CallVerify ==
    /\ vpc = "call"
    /\ verdict' = verify_json(candidate)
    /\ vpc' = "returned"
    /\ UNCHANGED <<candidate, verdict2>>
    /\ UNCHANGED pipeVars

\* verify_json(verify_json(candidate))
CallAgain ==
    /\ vpc = "returned"
    /\ verdict.tag = "ok"
    /\ verdict2' = verify_json(verdict.data)
    /\ vpc' = "again"
    /\ UNCHANGED <<candidate, verdict>>
    /\ UNCHANGED pipeVars

NextV == CallVerify \/ CallAgain

SpecV == InitV /\ [][NextV]_vars

-----------------------------------------------------------------------------
(* The vocabulary of the properties, stated without the code's operators   *)
(* for dicts, the regular expression and validation                        *)

Upper == {"A", "B", "E", "F", "J", "N", "P"}

\* lower-cased and whitespace-trimmed
IsNormal(s) ==
    /\ \A j \in 1..Len(s) : s[j] \notin Upper
    /\ s # <<>> => ~IsSpace(s[1]) /\ ~IsSpace(s[Len(s)])

\* dot-separated non-empty runs of atext
IsDotAtom(x) ==
    /\ x # <<>>
    /\ \A j \in 1..Len(x) : x[j] \in AText \cup {"."}
    /\ x[1] # "." /\ x[Len(x)] # "."
    /\ \A j \in 1..(Len(x) - 1) : ~(x[j] = "." /\ x[j + 1] = ".")

\* two or more dot-separated labels; a label is letters, digits and inner hyphens
IsHostname(y) ==
    /\ y # <<>>
    /\ \A j \in 1..Len(y) : y[j] \in Ldh \cup {"."}
    /\ \E j \in 1..Len(y) : y[j] = "."
    /\ y[1] \notin {".", "-"} /\ y[Len(y)] \notin {".", "-"}
    /\ \A j \in 1..(Len(y) - 1) :
        /\ ~(y[j] = "." /\ y[j + 1] \in {".", "-"})
        /\ ~(y[j] = "-" /\ y[j + 1] = ".")

\* the whole string is local-part @ domain
InGrammar(s) ==
    \E p \in 1..Len(s) :
        /\ s[p] = "@"
        /\ IsDotAtom(SubSeq(s, 1, p - 1))
        /\ IsHostname(SubSeq(s, p + 1, Len(s)))

NormKeys(c) == {NormStr(c[j].k) : j \in 1..Len(c)}

\* the normalised value of the last item whose normalised key is nk
LastValue(c, nk) ==
    LET J == {j \in 1..Len(c) : NormStr(c[j].k) = nk}
        m == CHOOSE j \in J : \A j2 \in J : j2 <= j
    IN  NormStr(c[m].v.s)

ExpectedMap(c) == [nk \in NormKeys(c) |-> Str(LastValue(c, nk))]

\* every gate of the validation lets c through
GatesPass(c) ==
    /\ Len(c) > 0
    /\ AllStr(c)
    /\ S_email \in NormKeys(c)
    /\ NormKeys(c) \subseteq Allowed
    /\ InGrammar(LastValue(c, S_email))

Logged(i, line) == \E j \in 1..Len(log[i]) : log[i][j] = line

IsPrefix(a, b) == Len(a) <= Len(b) /\ a = SubSeq(b, 1, Len(a))

Stages == <<"fetch", "parse", "verify", "put">>

S_phone == <<"p","h","o","n","e">>
Forbidden == "Input data contains forbidden keys"
Invalid == "Provided email is not valid."

-----------------------------------------------------------------------------
(* Properties *)

\* C1: no exception leaves lambda_handler, whatever the object body, the
\* fetch outcome and the store outcome: every failure of stage 1 or stage 2
\* ends the invocation with the exception printed and the failure line logged.
C1_NoErrorEscapes ==
    \A i \in Invocations :
        /\ ~escaped[i]
        /\ result[i] # NoExc =>
              /\ pc[i] = "done"
              /\ Logged(i, "print(e)")
              /\ log[i][Len(log[i])] \in {Stage1Failed, Stage2Failed}

C1_Witness ==
    \E i \in Invocations :
        /\ pc[i] = "done"
        /\ result[i].msg = Invalid
        /\ Logged(i, Stage2Failed)
        /\ ~escaped[i]

\* C2: put_item is called only by an invocation whose fetch, parse and
\* validation gates all succeeded, and only such a call changes the store.
C2_WriteOnlyAfterGates ==
    [][ /\ \A i \in Invocations :
            ack'[i] # -1 =>
                /\ body'[i].kind = "dict"
                /\ GatesPass(body'[i].obj)
                /\ IsPrefix(<<"fetch", "parse", "verify", "put">>, trace'[i])
        /\ store' # store =>
            \E i \in Invocations : pc[i] = "put" /\ ack[i] = -1 /\ ack'[i] # -1
      ]_vars

C2_Witness ==
    \E i \in Invocations :
        /\ pc[i] = "done"
        /\ result[i].msg = Forbidden
        /\ result[i].keys = {S_phone}
        /\ ack[i] = -1
        /\ DOMAIN store # {}

\* C3: every row of the store is a canonical record stored under its own email.
C3_RowsCanonical ==
    \A key \in DOMAIN store :
        LET row == store[key]
        IN  /\ S_email \in DOMAIN row
            /\ DOMAIN row \subseteq Allowed
            /\ \A a \in DOMAIN row :
                  IsNormal(a) /\ row[a].str /\ IsNormal(row[a].s)
            /\ InGrammar(row[S_email].s)
            /\ key = row[S_email].s

C3_Witness ==
    /\ Cardinality(DOMAIN store) = 2
    /\ \E key \in DOMAIN store :
          /\ S_first_name \in DOMAIN store[key]
          /\ store[key][S_first_name] = Str(<<"j","a","n","e">>)
    /\ \E key \in DOMAIN store :
          /\ S_last_name \in DOMAIN store[key]
          /\ store[key][S_last_name] = Str(<<"b">>)

\* C4: an acknowledged write replaces the whole row of its email by the
\* record written (nothing of the old row survives) and leaves every other
\* row as it was.
C4_FullReplace ==
    [][ \A i \in Invocations :
          (pc[i] = "put" /\ ack'[i] = 200) =>
             LET item == ExpectedMap(input_data[i])
                 e    == item[S_email].s
             IN  /\ DOMAIN store' = DOMAIN store \cup {e}
                 /\ store'[e] = item
                 /\ \A k \in DOMAIN store \ {e} : store'[k] = store[k]
      ]_vars

\* the row of an email lost the first_name an earlier write had given it
C4_Witness ==
    \E i, j \in Invocations :
        /\ pc[i] = "done" /\ ack[i] = 200
        /\ pc[j] = "done" /\ ack[j] = 200
        /\ Get(outcome[i].data, S_email) = Get(outcome[j].data, S_email)
        /\ S_first_name \in Keys(outcome[j].data)
        /\ S_first_name \notin Keys(outcome[i].data)
        /\ store[Get(outcome[i].data, S_email).s] = AsMap(outcome[i].data)
        /\ Cardinality(DOMAIN store) = 2

\* C5 as stated: every string-valued candidate with a key outside the
\* allowed set fails with the forbidden-fields error listing all such keys.
C5_Original ==
    (/\ vpc # "call"
     /\ AllStr(candidate)
     /\ NormKeys(candidate) \ Allowed # {}) =>
        /\ verdict.tag = Forbidden
        /\ verdict.keys = NormKeys(candidate) \ Allowed

\* C5: every string-valued candidate whose normalised keys include email and
\* a key outside the allowed set fails with the forbidden-fields error, which
\* lists every such key in its normalised form.
C5_ForbiddenListed ==
    (/\ vpc # "call"
     /\ AllStr(candidate)
     /\ S_email \in NormKeys(candidate)
     /\ NormKeys(candidate) \ Allowed # {}) =>
        /\ verdict.tag = Forbidden
        /\ verdict.keys = NormKeys(candidate) \ Allowed
        /\ verdict.data = <<>>

C5_Witness ==
    /\ vpc = "returned"
    /\ verdict.tag = Forbidden
    /\ verdict.keys = {S_phone, <<"x">>}
    /\ <<" ","P","h","o","n","e">> \in Keys(candidate)

\* C6: the invocation reports success exactly when put_item answered 200;
\* any other status ends it with the bad-status exception carrying that
\* status, the failure line logged and no success line.
C6_SuccessIffOk ==
    \A i \in Invocations :
        (pc[i] = "done" /\ ack[i] # -1) =>
            /\ Logged(i, Succeeded) <=> ack[i] = 200
            /\ ack[i] = 200 =>
                  /\ result[i] = NoExc
                  /\ Logged(i, "Input data was successfully stored in the DB.")
                  /\ ~Logged(i, Stage2Failed)
                  /\ AsMap(outcome[i].data) = ExpectedMap(input_data[i])
            /\ ack[i] \in Statuses \ {200} =>
                  /\ result[i].msg = "Bad status code from DynamoDB"
                  /\ result[i].status = ack[i]
                  /\ Logged(i, Stage2Failed)
                  /\ ~Logged(i, "Input data was successfully stored in the DB.")

C6_Witness ==
    \E i \in Invocations :
        /\ pc[i] = "done"
        /\ ack[i] = 500
        /\ result[i].status = 500
        /\ Logged(i, Stage2Failed)

\* C7: a candidate that passes the earlier gates is accepted exactly when
\* its normalised email is in the grammar over its whole length; it is then
\* returned normalised, and otherwise fails with the invalid-email error.
C7_FullSpanOnly ==
    (/\ vpc # "call"
     /\ Len(candidate) > 0
     /\ AllStr(candidate)
     /\ S_email \in NormKeys(candidate)
     /\ NormKeys(candidate) \subseteq Allowed) =>
        LET email == LastValue(candidate, S_email)
        IN  /\ verdict.tag = "ok" <=> InGrammar(email)
            /\ InGrammar(email) => AsMap(verdict.data) = ExpectedMap(candidate)
            /\ ~InGrammar(email) => verdict.tag = Invalid /\ verdict.data = <<>>

\* only a proper substring of the email matches
C7_Witness ==
    /\ vpc = "returned"
    /\ verdict.tag = Invalid
    /\ Len(candidate) = 1
    /\ \E a, b \in 1..Len(candidate[1].v.s) :
          /\ b - a + 1 < Len(candidate[1].v.s)
          /\ InGrammar(SubSeq(candidate[1].v.s, a, b))

\* C8: normalising a normalised dict changes nothing, and validating the
\* record validation returned returns the same record.
C8_Idempotent ==
    /\ AllStr(candidate) =>
          Normalize(Normalize(candidate)) = Normalize(candidate)
    /\ vpc = "again" =>
          /\ verdict2.tag = "ok"
          /\ AsMap(verdict2.data) = AsMap(verdict.data)

\* two raw keys collapsed into one and a value was trimmed
C8_Witness ==
    /\ vpc = "again"
    /\ Len(verdict.data) < Len(candidate)
    /\ \E j \in 1..Len(candidate) : ~IsNormal(candidate[j].v.s)

\* C9: for a string-valued candidate the first failing gate decides: empty,
\* then email missing, then forbidden keys, then email not in the grammar;
\* otherwise the normalised mapping is returned.  A failure returns no data.
C9_GateOrder ==
    (vpc # "call" /\ AllStr(candidate)) =>
        IF Len(candidate) = 0
        THEN verdict = Raise("File empty.")
        ELSE IF S_email \notin NormKeys(candidate)
        THEN verdict = Raise("Email not found.")
        ELSE IF NormKeys(candidate) \ Allowed # {}
        THEN verdict = RaiseKeys(NormKeys(candidate) \ Allowed)
        ELSE IF ~InGrammar(LastValue(candidate, S_email))
        THEN verdict = Raise(Invalid)
        ELSE verdict.tag = "ok" /\ AsMap(verdict.data) = ExpectedMap(candidate)

\* email missing while a forbidden key is present
C9_Witness ==
    /\ vpc = "returned"
    /\ verdict.tag = "Email not found."
    /\ S_phone \in NormKeys(candidate)

\* C10: an invocation runs fetch, parse, verify, put in this order, each at
\* most once and only after the previous stage succeeded; a stage-1 failure
\* is logged and is followed by neither validation nor a store write; the
\* success line follows an acknowledged write only.
C10_StageOrder ==
    \A i \in Invocations :
        /\ IsPrefix(trace[i], Stages)
        /\ body[i].kind = "missing" => IsPrefix(trace[i], <<"fetch">>)
        /\ body[i].kind # "dict" =>
              /\ IsPrefix(trace[i], <<"fetch", "parse">>)
              /\ outcome[i] = None /\ ack[i] = -1
              /\ pc[i] = "done" => Logged(i, Stage1Failed) /\ ~Logged(i, Succeeded)
        /\ (Len(trace[i]) > 3 \/ ack[i] # -1) =>
              body[i].kind = "dict" /\ GatesPass(body[i].obj)
        /\ Logged(i, Succeeded) => trace[i] = Stages /\ ack[i] = 200

C10_Witness ==
    \E i \in Invocations :
        /\ pc[i] = "done"
        /\ body[i].kind = "list"
        /\ trace[i] = <<"fetch", "parse">>
        /\ Logged(i, Stage1Failed)
        /\ result[i].cls = "TypeError"

=============================================================================
